---- MODULE Spec2Model ----
(***************************************************************************)
(* Model of notebooks/01_GNN_intro.ipynb: the SimpleGCNLayer / SimpleGCN    *)
(* forward pass (cell 9e2f7890) and the toy training loop (cell 88282a76). *)
(*                                                                         *)
(* Tensor entries are exact numbers of the field Q(sqrt 2, sqrt 3), which  *)
(* holds d^(-1/2) for every degree d whose square-free part is 1, 2, 3 or  *)
(* 6, together with the IEEE special values +inf, -inf and NaN that        *)
(* torch.pow, multiplication and addition produce.  Rounding of finite     *)
(* values is not modelled.                                                 *)
(***************************************************************************)
EXTENDS Integers, Sequences, FiniteSets, TLC

(* ------------------------------------------------------------------ *)
(* Bounds of the model                                                 *)
(* ------------------------------------------------------------------ *)
\* largest number of rows / columns of an adjacency or feature tensor
MaxN == 3
\* largest number of nodes in the runs that follow the values through both layers
MaxStackN == 2
\* largest in_features / hidden_features / out_features
MaxDim == 2

(* ------------------------------------------------------------------ *)
(* Scalars: float values                                               *)
(* ------------------------------------------------------------------ *)
Abs(n) == IF n < 0 THEN -n ELSE n

RECURSIVE Gcd(_, _)
Gcd(m, n) == IF n = 0 THEN m ELSE Gcd(n, m % n)

\* (a + b*sqrt2 + c*sqrt3 + d*sqrt6) / den, in lowest terms, den > 0
Fin(a, b, c, d, den) ==
    LET g == Gcd(Gcd(Gcd(Abs(a), Abs(b)), Gcd(Abs(c), Abs(d))), Abs(den))
    IN  [k |-> "fin", a |-> a \div g, b |-> b \div g, c |-> c \div g,
         d |-> d \div g, den |-> Abs(den) \div g]

Int2F(n) == Fin(n, 0, 0, 0, 1)
Zero == Int2F(0)
One == Int2F(1)
PosInf == [k |-> "inf", a |-> 1, b |-> 0, c |-> 0, d |-> 0, den |-> 0]
NegInf == [k |-> "inf", a |-> -1, b |-> 0, c |-> 0, d |-> 0, den |-> 0]
NaN == [k |-> "nan", a |-> 0, b |-> 0, c |-> 0, d |-> 0, den |-> 0]

\* sign of p + q*sqrt2 for integers p, q
SignQ2(p, q) ==
    IF p >= 0 /\ q >= 0 THEN (IF p = 0 /\ q = 0 THEN 0 ELSE 1)
    ELSE IF p <= 0 /\ q <= 0 THEN -1
    ELSE IF p > 0 THEN (IF p * p > 2 * q * q THEN 1 ELSE -1)
    ELSE (IF 2 * q * q > p * p THEN 1 ELSE -1)

\* sign of a + b*sqrt2 + c*sqrt3 + d*sqrt6 = P + sqrt3 * Q, P = a + b*sqrt2, Q = c + d*sqrt2
SignNum(a, b, c, d) ==
    LET sP == SignQ2(a, b)
        sQ == SignQ2(c, d)
        \* P^2 - 3 Q^2
        sD == SignQ2(a * a + 2 * b * b - 3 * (c * c + 2 * d * d), 2 * a * b - 6 * c * d)
    IN  IF sQ = 0 THEN sP
        ELSE IF sP = 0 THEN sQ
        ELSE IF sP = sQ THEN sP
        ELSE IF sD > 0 THEN sP ELSE sQ

\* the sign of a float: -1, 0, 1 (NaN has none: 2)
Sign(v) ==
    IF v.k = "nan" THEN 2
    ELSE IF v.k = "inf" THEN v.a
    ELSE SignNum(v.a, v.b, v.c, v.d)

IsInf(v) == v.k = "inf"
IsNaN(v) == v.k = "nan"
IsFinite(v) == v.k = "fin"

\* IEEE multiplication
FMul(u, v) ==
    IF IsNaN(u) \/ IsNaN(v) THEN NaN
    ELSE IF IsInf(u) \/ IsInf(v) THEN
        (IF Sign(u) * Sign(v) = 0 THEN NaN
         ELSE IF Sign(u) * Sign(v) > 0 THEN PosInf ELSE NegInf)
    ELSE Fin(u.a * v.a + 2 * u.b * v.b + 3 * u.c * v.c + 6 * u.d * v.d,
             u.a * v.b + u.b * v.a + 3 * (u.c * v.d + u.d * v.c),
             u.a * v.c + u.c * v.a + 2 * (u.b * v.d + u.d * v.b),
             u.a * v.d + u.d * v.a + u.b * v.c + u.c * v.b,
             u.den * v.den)

\* IEEE addition
FAdd(u, v) ==
    IF IsNaN(u) \/ IsNaN(v) THEN NaN
    ELSE IF IsInf(u) /\ IsInf(v) THEN (IF u.a = v.a THEN u ELSE NaN)
    ELSE IF IsInf(u) THEN u
    ELSE IF IsInf(v) THEN v
    ELSE Fin(u.a * v.den + v.a * u.den, u.b * v.den + v.b * u.den,
             u.c * v.den + v.c * u.den, u.d * v.den + v.d * u.den,
             u.den * v.den)

\* 1/sqrt(n) for an integer n > 0 with n = s*s*f, f in {1, 2, 3, 6}: sqrt(f) / (s*f)
InvSqrtInt(n) ==
    LET sf == CHOOSE p \in (1..n) \X {1, 2, 3, 6} : p[1] * p[1] * p[2] = n
        s == sf[1]
        f == sf[2]
    IN  Fin(IF f = 1 THEN 1 ELSE 0, IF f = 2 THEN 1 ELSE 0,
            IF f = 3 THEN 1 ELSE 0, IF f = 6 THEN 1 ELSE 0, s * f)

\* torch.pow(v, -0.5) on a float holding an integer, an infinity or NaN
PowNegHalf(v) ==
    IF IsNaN(v) THEN NaN
    ELSE IF IsInf(v) THEN (IF v.a > 0 THEN Zero ELSE NaN)
    ELSE IF Sign(v) = 0 THEN PosInf
    ELSE IF Sign(v) < 0 THEN NaN
    ELSE InvSqrtInt(v.a)

\* F.relu on one entry: max(0, v), NaN kept
ReluF(v) == IF IsNaN(v) THEN NaN ELSE IF Sign(v) < 0 THEN Zero ELSE v

(* ------------------------------------------------------------------ *)
(* Tensors: 2-D, a sequence of rows                                    *)
(* An operand that is read entry by entry is first bound to its value  *)
(* (v \in {operand}), so that it is evaluated once.                    *)
(* ------------------------------------------------------------------ *)
Rows(m) == Len(m)
Cols(m) == Len(m[1])
Shape(m) == <<Rows(m), Cols(m)>>

RECURSIVE SumTo(_, _)
SumTo(s, n) == IF n = 0 THEN Zero ELSE FAdd(SumTo(s, n - 1), s[n])

\* the sum of a sequence of floats, left to right
SumSeq(s) == CHOOSE r \in {SumTo(v, Len(v)) : v \in {s}} : TRUE

\* variant: the sum taken over dim=0, the column sums: (R, C) -> (1, C)
SumDim0Keep(m) ==
    CHOOSE r \in {<<[j \in 1..Cols(v) |-> SumSeq([i \in 1..Rows(v) |-> v[i][j]])]>> :
                  v \in {m}} : TRUE

\* torch.sum(m, dim=1, keepdim=True): (R, C) -> (R, 1)
SumDim1Keep(m) == CHOOSE r \in {[i \in 1..Rows(v) |-> <<SumSeq(v[i])>>] : v \in {m}} : TRUE

\* m.transpose(0, 1)
Transpose(m) ==
    CHOOSE r \in {[i \in 1..Cols(v) |-> [j \in 1..Rows(v) |-> v[j][i]]] : v \in {m}} : TRUE

\* torch broadcasting of two 2-D shapes
BroadcastOK(p, q) ==
    /\ Rows(p) = Rows(q) \/ Rows(p) = 1 \/ Rows(q) = 1
    /\ Cols(p) = Cols(q) \/ Cols(p) = 1 \/ Cols(q) = 1

Max2(m, n) == IF m >= n THEN m ELSE n

\* p * q, elementwise with broadcasting
BMul(p, q) ==
    CHOOSE r \in
        {[i \in 1..Max2(Rows(u), Rows(v)) |-> [j \in 1..Max2(Cols(u), Cols(v)) |->
            FMul(u[IF Rows(u) = 1 THEN 1 ELSE i][IF Cols(u) = 1 THEN 1 ELSE j],
                 v[IF Rows(v) = 1 THEN 1 ELSE i][IF Cols(v) = 1 THEN 1 ELSE j])]] :
         u \in {p}, v \in {q}} : TRUE

\* torch.mm(p, q)
MatMulOK(p, q) == Cols(p) = Rows(q)
MatMul(p, q) ==
    CHOOSE r \in
        {[i \in 1..Rows(u) |-> [j \in 1..Cols(v) |->
            SumSeq([t \in 1..Cols(u) |-> FMul(u[i][t], v[t][j])])]] :
         u \in {p}, v \in {q}} : TRUE

(* ------------------------------------------------------------------ *)
(* Model construction (SimpleGCNLayer.__init__, SimpleGCN.__init__)     *)
(* ------------------------------------------------------------------ *)
\* nn.Linear(in_features, out_features, bias=False): weight of shape (out_features, in_features)
LinearWeightShape(in_features, out_features) == <<out_features, in_features>>

\* self.gcn1 = SimpleGCNLayer(in_features, hidden_features)
Gcn1Features(in_features, hidden_features, out_features) == <<in_features, hidden_features>>

\* variant: gcn2 built with hidden_features outputs
Gcn2FeaturesHidden(in_features, hidden_features, out_features) ==
    <<hidden_features, hidden_features>>

\* self.gcn2 = SimpleGCNLayer(hidden_features, out_features)
Gcn2Features(in_features, hidden_features, out_features) == <<hidden_features, out_features>>

\* self.linear(x): x @ weight^T; fails unless x has in_features columns
LinearOK(x, weight) == Cols(x) = Cols(weight)
LinearApply(x, weight) == MatMul(x, Transpose(weight))

(* ------------------------------------------------------------------ *)
(* State                                                               *)
(* ------------------------------------------------------------------ *)
VARIABLES
    adj,              \* the adjacency tensor the caller passes; both layers get this object
    x_in,             \* the feature tensor the caller passes
    features,         \* <<in_features, hidden_features, out_features>> given to SimpleGCN(...)
    W,                \* W[1] = gcn1.linear.weight, W[2] = gcn2.linear.weight
    layer,            \* the layer whose forward is running: 1 (gcn1) or 2 (gcn2)
    pc,               \* the position in the forward pass
    x,                \* the local x of the running frame
    degree,           \* local of SimpleGCNLayer.forward
    degree_inv_sqrt,  \* local of SimpleGCNLayer.forward
    adj_norm,         \* adj_norm[l]: the adj_norm local of layer l's call (<<>> before it is set)
    adj0,             \* history: the value of adj when the forward pass was called
    x0,               \* history: the value of x_in when the forward pass was called
    epoch,            \* training loop: the loop variable
    tpc,              \* training loop: the position
    updates,          \* training loop: how many times optimizer.step() has changed W1 and W2
    grad,             \* training loop: the .grad of the weights
    logits,           \* training loop: the value of the variable logits
    loss,             \* training loop: the value of the variable loss
    printed           \* training loop: the lines printed so far

fwdVars == <<adj, x_in, features, W, layer, pc, x, degree, degree_inv_sqrt, adj_norm, adj0, x0>>
trainVars == <<epoch, tpc, updates, grad, logits, loss, printed>>
vars == <<adj, x_in, features, W, layer, pc, x, degree, degree_inv_sqrt, adj_norm, adj0, x0,
          epoch, tpc, updates, grad, logits, loss, printed>>

None == <<>>

(* ------------------------------------------------------------------ *)
(* SimpleGCNLayer.forward, one statement per action                    *)
(* ------------------------------------------------------------------ *)
\* variant: the stack hands adj + I to its layers
LayerAdjSelfLoops(a) ==
    [i \in 1..Rows(a) |-> [j \in 1..Cols(a) |->
        IF i = j THEN FAdd(a[i][j], One) ELSE a[i][j]]]

\* the adj argument of self.gcn1(x, adj) and self.gcn2(x, adj): the caller's tensor itself
LayerAdj(a) == a

\* variant: the layer first adds the self-loops to the caller's tensor, in place
DegreeInPlaceSelfLoops ==
    /\ pc = "degree"
    /\ adj' = LayerAdjSelfLoops(adj)
    /\ degree' = SumDim1Keep(adj')
    /\ pc' = "pow"
    /\ UNCHANGED <<x_in, features, W, layer, x, degree_inv_sqrt, adj_norm, adj0, x0>>
    /\ UNCHANGED trainVars

\* degree = torch.sum(adj, dim=1, keepdim=True)
Degree ==
    /\ pc = "degree"
    /\ degree' = SumDim1Keep(LayerAdj(adj))
    /\ pc' = "pow"
    /\ UNCHANGED <<adj, x_in, features, W, layer, x, degree_inv_sqrt, adj_norm, adj0, x0>>
    /\ UNCHANGED trainVars

\* degree_inv_sqrt = torch.pow(degree, -0.5)
InvSqrt ==
    /\ pc = "pow"
    /\ degree_inv_sqrt' = [i \in 1..Rows(degree) |-> [j \in 1..Cols(degree) |->
                            PowNegHalf(degree[i][j])]]
    /\ pc' = "mask"
    /\ UNCHANGED <<adj, x_in, features, W, layer, x, degree, adj_norm, adj0, x0>>
    /\ UNCHANGED trainVars

\* variant: no masking
MaskedNone(t) == t

\* t[torch.isinf(t)] = 0.0
MaskedInf(t) ==
    [i \in 1..Rows(t) |-> [j \in 1..Cols(t) |-> IF IsInf(t[i][j]) THEN Zero ELSE t[i][j]]]

\* degree_inv_sqrt[torch.isinf(degree_inv_sqrt)] = 0.0, in place
MaskInf ==
    /\ pc = "mask"
    /\ degree_inv_sqrt' = MaskedInf(degree_inv_sqrt)
    /\ pc' = "norm"
    /\ UNCHANGED <<adj, x_in, features, W, layer, x, degree, adj_norm, adj0, x0>>
    /\ UNCHANGED trainVars

\* variant: rows scaled, columns not
NormalizeRowsOnly(dis, a) == BMul(dis, a)

\* both broadcasts of the product are defined
NormalizeOK(dis, a) ==
    /\ BroadcastOK(dis, a)
    /\ BroadcastOK(BMul(dis, a), Transpose(dis))

\* degree_inv_sqrt * adj * degree_inv_sqrt.transpose(0, 1), left to right
NormalizeAdj(dis, a) == BMul(BMul(dis, a), Transpose(dis))

\* adj_norm = degree_inv_sqrt * adj * degree_inv_sqrt.transpose(0, 1)
Normalize ==
    /\ pc = "norm"
    /\ IF NormalizeOK(degree_inv_sqrt, LayerAdj(adj))
       THEN /\ adj_norm' = [adj_norm EXCEPT ![layer] = NormalizeAdj(degree_inv_sqrt, LayerAdj(adj))]
            /\ pc' = "mm"
       ELSE /\ adj_norm' = adj_norm
            /\ pc' = "error"
    /\ UNCHANGED <<adj, x_in, features, W, layer, x, degree, degree_inv_sqrt, adj0, x0>>
    /\ UNCHANGED trainVars

\* x = torch.mm(adj_norm, x)
Aggregate ==
    /\ pc = "mm"
    /\ IF MatMulOK(adj_norm[layer], x)
       THEN /\ x' = MatMul(adj_norm[layer], x)
            /\ pc' = "linear"
       ELSE /\ x' = x
            /\ pc' = "error"
    /\ UNCHANGED <<adj, x_in, features, W, layer, degree, degree_inv_sqrt, adj_norm, adj0, x0>>
    /\ UNCHANGED trainVars

\* x = self.linear(x)
Linear ==
    /\ pc = "linear"
    /\ IF LinearOK(x, W[layer])
       THEN /\ x' = LinearApply(x, W[layer])
            /\ pc' = "return"
       ELSE /\ x' = x
            /\ pc' = "error"
    /\ UNCHANGED <<adj, x_in, features, W, layer, degree, degree_inv_sqrt, adj_norm, adj0, x0>>
    /\ UNCHANGED trainVars

\* return x: gcn1 returns to SimpleGCN.forward before F.relu, gcn2 before its return
LayerReturn ==
    /\ pc = "return"
    /\ pc' = IF layer = 1 THEN "relu" ELSE "done"
    /\ UNCHANGED <<adj, x_in, features, W, layer, x, degree, degree_inv_sqrt, adj_norm, adj0, x0>>
    /\ UNCHANGED trainVars

(* ------------------------------------------------------------------ *)
(* SimpleGCN.forward                                                   *)
(* ------------------------------------------------------------------ *)
\* variant: no nonlinearity between the layers
NoRelu(v) == v

\* F.relu(x), elementwise
ReluEntry(v) == ReluF(v)

\* x = F.relu(x); x = self.gcn2(x, adj): gcn2's forward starts
Relu ==
    /\ pc = "relu"
    /\ x' = [i \in 1..Rows(x) |-> [j \in 1..Cols(x) |-> ReluEntry(x[i][j])]]
    /\ layer' = 2
    /\ pc' = "degree"
    /\ UNCHANGED <<adj, x_in, features, W, degree, degree_inv_sqrt, adj_norm, adj0, x0>>
    /\ UNCHANGED trainVars

Next == Degree \/ InvSqrt \/ MaskInf \/ Normalize \/ Aggregate \/ Linear \/ LayerReturn \/ Relu


(* ------------------------------------------------------------------ *)
(* Toy data and the training loop (cell 88282a76)                      *)
(* ------------------------------------------------------------------ *)
\* N = 5
NToy == 5
\* for epoch in range(50)
Epochs == 50
\* if (epoch + 1) % 10 == 0
PrintEvery == 10

\* adj_toy: a chain i -- i+1 of n nodes, both directions, and then the diagonal set to 1
AdjToy(n) ==
    [i \in 1..n |-> [j \in 1..n |-> IF j = i + 1 \/ i = j + 1 \/ i = j THEN One ELSE Zero]]

\* the weights are known to the loop by how many optimizer steps have been applied to them;
\* logits, loss and gradients by the weights and the epoch they were computed from
NoValue == [weights |-> -1, epoch |-> -1]

\* for epoch in range(50): bind the next epoch, or leave the loop
ForNext ==
    /\ tpc = "for"
    /\ IF epoch + 1 < Epochs
       THEN /\ epoch' = epoch + 1
            /\ tpc' = "zero_grad"
       ELSE /\ epoch' = epoch
            /\ tpc' = "final"
    /\ UNCHANGED <<updates, grad, logits, loss, printed>>
    /\ UNCHANGED fwdVars

\* optimizer.zero_grad()
ZeroGrad ==
    /\ tpc = "zero_grad"
    /\ grad' = NoValue
    /\ tpc' = "forward"
    /\ UNCHANGED <<epoch, updates, logits, loss, printed>>
    /\ UNCHANGED fwdVars

\* variant: a forward pass that also changes the weights
ForwardUpdatesWeights ==
    /\ tpc = "forward"
    /\ logits' = [weights |-> updates, epoch |-> epoch]
    /\ updates' = updates + 1
    /\ tpc' = "loss"
    /\ UNCHANGED <<epoch, grad, loss, printed>>
    /\ UNCHANGED fwdVars

\* logits = model(x_toy, adj_toy)
Forward ==
    /\ tpc = "forward"
    /\ logits' = [weights |-> updates, epoch |-> epoch]
    /\ tpc' = "loss"
    /\ UNCHANGED <<epoch, updates, grad, loss, printed>>
    /\ UNCHANGED fwdVars

\* loss = criterion(logits, labels)
Loss ==
    /\ tpc = "loss"
    /\ loss' = logits
    /\ tpc' = "backward"
    /\ UNCHANGED <<epoch, updates, grad, logits, printed>>
    /\ UNCHANGED fwdVars

\* loss.backward()
Backward ==
    /\ tpc = "backward"
    /\ grad' = loss
    /\ tpc' = "step"
    /\ UNCHANGED <<epoch, updates, logits, loss, printed>>
    /\ UNCHANGED fwdVars

\* optimizer.step()
Step ==
    /\ tpc = "step"
    /\ updates' = updates + 1
    /\ tpc' = "if"
    /\ UNCHANGED <<epoch, grad, logits, loss, printed>>
    /\ UNCHANGED fwdVars

\* if (epoch + 1) % 10 == 0: print(f"Epoch {epoch+1}, Loss: {loss.item():.4f}")
PrintLoss ==
    /\ tpc = "if"
    /\ printed' = IF (epoch + 1) % PrintEvery = 0
                  THEN Append(printed, [line |-> "Epoch", epoch |-> epoch + 1, value |-> loss])
                  ELSE printed
    /\ tpc' = "for"
    /\ UNCHANGED <<epoch, updates, grad, logits, loss>>
    /\ UNCHANGED fwdVars

\* variant: the logits recomputed from the final weights before printing
PrintFinalRecomputed ==
    /\ tpc = "final"
    /\ printed' = Append(printed, [line |-> "Final logits", epoch |-> epoch + 1,
                                   value |-> [weights |-> updates, epoch |-> epoch]])
    /\ tpc' = "done"
    /\ UNCHANGED <<epoch, updates, grad, logits, loss>>
    /\ UNCHANGED fwdVars

\* print("\nFinal logits:\n", logits)
PrintFinal ==
    /\ tpc = "final"
    /\ printed' = Append(printed, [line |-> "Final logits", epoch |-> epoch + 1, value |-> logits])
    /\ tpc' = "done"
    /\ UNCHANGED <<epoch, updates, grad, logits, loss>>
    /\ UNCHANGED fwdVars

TrainNext ==
    ForNext \/ ZeroGrad \/ Forward \/ Loss \/ Backward \/ Step \/ PrintLoss \/ PrintFinal

(* ------------------------------------------------------------------ *)
(* Initial states                                                      *)
(* ------------------------------------------------------------------ *)
Ones(r, c) == [i \in 1..r |-> [j \in 1..c |-> One]]
IntT(m) == [i \in 1..Len(m) |-> [j \in 1..Len(m[i]) |-> Int2F(m[i][j])]]
Bin == {Zero, One}

\* d[i]: the number of ones in row i of a 0/1 matrix
RowDegree(m, i) == Cardinality({j \in 1..Cols(m) : m[i][j] = One})

\* The square 0/1 adjacencies of n nodes with the nodes numbered by non-increasing degree,
\* and the notebook's chain.  Renumbering the nodes permutes the rows and columns of the
\* normalized adjacency and the rows of the output, and every square 0/1 matrix is a
\* renumbering of one of these.
Adjacencies(n) ==
    {m \in [1..n -> [1..n -> Bin]] :
        \/ \A i \in 1..(n - 1) : RowDegree(m, i) >= RowDegree(m, i + 1)
        \/ m = AdjToy(n)}

\* the training loop before its first statement
TrainStart ==
    /\ epoch = -1
    /\ tpc = "for"
    /\ updates = 0
    /\ grad = NoValue
    /\ logits = NoValue
    /\ loss = NoValue
    /\ printed = <<>>

\* a call model(x_in, adj) about to run gcn1's first statement
CallStart ==
    /\ layer = 1
    /\ pc = "degree"
    /\ x = x_in
    /\ degree = None
    /\ degree_inv_sqrt = None
    /\ adj_norm = [l \in 1..2 |-> None]
    /\ adj0 = adj
    /\ x0 = x_in

\* feature rows and weights of the runs that follow the values: in 2, hidden 2, out 1
FeatRows == {<<Int2F(1), Int2F(2)>>, <<Int2F(-1), Int2F(1)>>}
Gcn1Weights == {IntT(<<<<1, -1>>, <<-1, 2>>>>), IntT(<<<<2, 1>>, <<0, -1>>>>)}
Gcn2Weights == {IntT(<<<<1, 1>>>>), IntT(<<<<1, -2>>>>)}

\* square 0/1 adjacencies of up to MaxStackN nodes, features and weights from the families
Init ==
    /\ \E n \in 1..MaxStackN :
        /\ adj \in Adjacencies(n)
        /\ x_in \in [1..n -> FeatRows]
    /\ features = <<2, 2, 1>>
    /\ W \in [1..2 -> Gcn1Weights \cup Gcn2Weights]
    /\ W[1] \in Gcn1Weights
    /\ W[2] \in Gcn2Weights
    /\ CallStart
    /\ TrainStart

\* square 0/1 adjacencies of up to MaxN nodes; one feature column, 1 x 1 weights
InitNorm ==
    /\ \E n \in 1..MaxN :
        /\ adj \in Adjacencies(n)
        /\ x_in = [i \in 1..n |-> <<Int2F(i)>>]
    /\ features = <<1, 1, 1>>
    /\ W = [l \in 1..2 |-> Ones(1, 1)]
    /\ CallStart
    /\ TrainStart

\* every shape: adjacency r x c, features k x xc, a model built for (din, hid, out)
InitShape ==
    /\ \E r \in 1..MaxN, c \in 1..MaxN, k \in 1..MaxN, xc \in 1..MaxDim :
        /\ adj = Ones(r, c)
        /\ x_in = Ones(k, xc)
    /\ \E din \in 1..MaxDim, hid \in 1..MaxDim, out \in 1..MaxDim :
        LET f1 == Gcn1Features(din, hid, out)
            f2 == Gcn2Features(din, hid, out)
            s1 == LinearWeightShape(f1[1], f1[2])
            s2 == LinearWeightShape(f2[1], f2[2])
        IN  /\ features = <<din, hid, out>>
            /\ W = <<Ones(s1[1], s1[2]), Ones(s2[1], s2[2])>>
    /\ CallStart
    /\ TrainStart

\* the notebook's cell: the 5-node chain with self-loops, a model (4, 8, 2)
InitTrain ==
    /\ adj = AdjToy(NToy)
    /\ x_in = Ones(NToy, 4)
    /\ features = <<4, 8, 2>>
    /\ W = <<Ones(8, 4), Ones(2, 8)>>
    /\ CallStart
    /\ TrainStart

Spec == Init /\ [][Next]_vars
SpecNorm == InitNorm /\ [][Next]_vars
SpecShape == InitShape /\ [][Next]_vars
\* the loop is straight-line sequential code: every statement that can run does run
SpecTrain == InitTrain /\ [][TrainNext]_vars /\ WF_vars(TrainNext)


(* ------------------------------------------------------------------ *)
(* Reference definitions the properties are stated with                *)
(* ------------------------------------------------------------------ *)
IsSquare(m) == Rows(m) = Cols(m)
IsBinary(m) == \A i \in 1..Rows(m) : \A j \in 1..Cols(m) : m[i][j] \in Bin
IsSymmetric(m) == IsSquare(m) /\ \A i \in 1..Rows(m) : \A j \in 1..Rows(m) : m[i][j] = m[j][i]
ZeroDiagonal(m) == \A i \in 1..Rows(m) : m[i][i] = Zero
Identity(n) == [i \in 1..n |-> [j \in 1..n |-> IF i = j THEN One ELSE Zero]]
AllFinite(m) == \A i \in 1..Rows(m) : \A j \in 1..Cols(m) : IsFinite(m[i][j])

\* s[i] = d[i]^(-1/2) when d[i] > 0, and 0 when d[i] = 0
RefScale(m, i) == IF RowDegree(m, i) = 0 THEN Zero ELSE InvSqrtInt(RowDegree(m, i))
\* A_norm[i,j] = s[i] * A[i,j] * s[j]
RefNorm(m) ==
    CHOOSE r \in
        {[i \in 1..Rows(v) |-> [j \in 1..Cols(v) |-> FMul(FMul(s[i], v[i][j]), s[j])]] :
         v \in {m}, s \in {[i \in 1..Rows(m) |-> RefScale(m, i)]}} : TRUE
\* A + I
PlusIdentity(m) ==
    [i \in 1..Rows(m) |-> [j \in 1..Cols(m) |->
        IF i = j THEN FAdd(m[i][j], One) ELSE m[i][j]]]
RefRelu(m) ==
    CHOOSE r \in {[i \in 1..Rows(v) |-> [j \in 1..Cols(v) |-> ReluF(v[i][j])]] : v \in {m}} : TRUE
\* one layer on an already normalized adjacency an: (an . h) . weight^T
RefLayer(an, h, weight) == MatMul(MatMul(an, h), Transpose(weight))
\* the two layers on one normalized adjacency shared by both
RefStack(an, h, w) == RefLayer(an, RefRelu(RefLayer(an, h, w[1])), w[2])
\* one node's row through a bias-free linear map: out[o] = sum_t row[t] * weight[o][t]
RowLinear(row, weight) ==
    [o \in 1..Rows(weight) |-> SumSeq([t \in 1..Len(row) |-> FMul(row[t], weight[o][t])])]
RowRelu(row) == [t \in 1..Len(row) |-> ReluF(row[t])]

\* positions at which the running layer's degree_inv_sqrt has been masked
AfterMask == {"norm", "mm", "linear", "return"}

(* ------------------------------------------------------------------ *)
(* Properties of the normalization (SpecNorm)                          *)
(* ------------------------------------------------------------------ *)
\* C1: for a square 0/1 adjacency, a node of degree 0 has inverse-square-root degree 0
\* once masked, row i and column i of the normalized adjacency are all zero, and no
\* entry of the normalized adjacency is infinite or NaN.
C1_ZeroDegreeMasked ==
    \A isolated \in {{i \in 1..Rows(adj0) : RowDegree(adj0, i) = 0}} :
        /\ pc \in AfterMask => \A i \in isolated : degree_inv_sqrt[i][1] = Zero
        /\ \A l \in 1..2 : adj_norm[l] # None =>
             /\ AllFinite(adj_norm[l])
             /\ \A i \in isolated : \A j \in 1..Rows(adj0) :
                  adj_norm[l][i][j] = Zero /\ adj_norm[l][j][i] = Zero

\* C1 witness: the pass has finished on a graph with a node that has no out-edge
\* (degree 0) but an in-edge, next to a node of positive degree.
C1_Witness ==
    /\ pc = "done"
    /\ \E i, j \in 1..Rows(adj0) :
         RowDegree(adj0, i) = 0 /\ adj0[j][i] = One /\ adj_norm[2][j][j] # Zero

\* C3: the normalized adjacency is N x N and equals s[i] * A[i,j] * s[j] entry by entry,
\* with d and s taken from the row sums, for symmetric and asymmetric A alike.
C3_NormEntries ==
    \A l \in 1..2 : adj_norm[l] # None =>
        /\ Shape(adj_norm[l]) = Shape(adj0)
        /\ \A s \in {[i \in 1..Rows(adj0) |-> RefScale(adj0, i)]} :
             \A i \in 1..Rows(adj0) : \A j \in 1..Rows(adj0) :
                 adj_norm[l][i][j] = FMul(FMul(s[i], adj0[i][j]), s[j])

\* C3 witness: an asymmetric graph whose row sums differ from its column sums, normalized.
C3_Witness ==
    /\ pc = "done"
    /\ ~IsSymmetric(adj0)
    /\ \E i \in 1..Rows(adj0) : RowDegree(adj0, i) # RowDegree(Transpose(adj0), i)
    /\ \E i, j \in 1..Rows(adj0) : i # j /\ adj_norm[2][i][j] \notin {Zero, One}

\* C4: a symmetric adjacency has a symmetric normalized adjacency, nodes of degree 0 included.
C4_NormSymmetric ==
    IsSymmetric(adj0) => \A l \in 1..2 : adj_norm[l] # None => IsSymmetric(adj_norm[l])

\* C4 witness: a symmetric graph with an edge between nodes of different degree and an
\* isolated node, normalized.
C4_Witness ==
    /\ pc = "done"
    /\ IsSymmetric(adj0)
    /\ \E i, j, z \in 1..Rows(adj0) :
         /\ adj0[i][j] = One
         /\ RowDegree(adj0, i) # RowDegree(adj0, j)
         /\ RowDegree(adj0, z) = 0

(* ------------------------------------------------------------------ *)
(* Properties of the two-layer forward pass (Spec)                     *)
(* ------------------------------------------------------------------ *)
\* C2 as stated: for a 0/1 adjacency with zero diagonal the stack's output is that of
\* the two layers on the normalized form of A + I.
C2_AddsSelfLoops ==
    (pc = "done" /\ ZeroDiagonal(adj0)) => x = RefStack(RefNorm(PlusIdentity(adj0)), x0, W)

\* C2 as amended: SimpleGCN.forward normalizes the adjacency exactly as it is passed and
\* adds no self-loop; the output is that of the two layers on the normalized form of A.
C2_UsesAdjAsPassed ==
    pc = "done" => x = RefStack(RefNorm(adj0), x0, W)

\* C2 witness: the pass has finished on a 2-node graph with an edge and no self-loop,
\* and on it the two readings give different outputs.
C2_Witness ==
    /\ pc = "done"
    /\ Rows(adj0) = 2
    /\ ZeroDiagonal(adj0)
    /\ adj0[1][2] = One
    /\ x # RefStack(RefNorm(PlusIdentity(adj0)), x0, W)

\* C6: with the identity as adjacency the normalized adjacency is exactly the identity,
\* and row i of a layer's output and of the stack's output is a function of row i of the
\* input features alone: x0[i] . W1^T after gcn1, relu(x0[i] . W1^T) . W2^T at the end.
C6_IdentityRowLocal ==
    adj0 = Identity(Rows(adj0)) =>
        /\ \A l \in 1..2 : adj_norm[l] # None => adj_norm[l] = Identity(Rows(adj0))
        /\ pc = "relu" => \A i \in 1..Rows(x0) : x[i] = RowLinear(x0[i], W[1])
        /\ pc = "done" => \A i \in 1..Rows(x0) :
             x[i] = RowLinear(RowRelu(RowLinear(x0[i], W[1])), W[2])

\* C6 witness: the pass has finished on the 2-node identity with two different feature
\* rows, one of which the ReLU clips.
C6_Witness ==
    /\ pc = "done"
    /\ Rows(adj0) = 2
    /\ adj0 = Identity(2)
    /\ x0[1] # x0[2]
    /\ \E t \in 1..2 : Sign(RowLinear(x0[1], W[1])[t]) < 0

\* C8: no statement of the pass changes the caller's adjacency or features, gcn2 computes
\* the normalized adjacency gcn1 computed, and the output is that of a stack that
\* normalizes once and shares the matrix between the layers.
C8_RecomputeIsReuse ==
    /\ adj = adj0
    /\ x_in = x0
    /\ (adj_norm[1] # None /\ adj_norm[2] # None) => adj_norm[2] = adj_norm[1]
    /\ pc = "done" => x = RefStack(adj_norm[1], x0, W)

\* C8 witness: both layers have normalized a 2-node graph with nodes of different degree.
C8_Witness ==
    /\ pc = "done"
    /\ Rows(adj0) = 2
    /\ RowDegree(adj0, 1) # RowDegree(adj0, 2)
    /\ adj_norm[1] # None
    /\ adj_norm[2] # None

(* ------------------------------------------------------------------ *)
(* Properties of the shapes (SpecShape)                                *)
(* ------------------------------------------------------------------ *)
\* a valid call: square adjacency, as many feature rows, in_features feature columns
ValidCall ==
    /\ IsSquare(adj0)
    /\ Rows(x0) = Rows(adj0)
    /\ Cols(x0) = features[1]

\* C5 as stated: a call whose adjacency is not square, or whose features have another
\* row count than the adjacency, never returns an output.
C5_BadShapeNeverReturns ==
    (~IsSquare(adj0) \/ Rows(x0) # Rows(adj0)) => pc # "done"

\* C7: on a valid call the pass does not fail, x has N rows at every position, its
\* column count is in_features up to gcn1's linear map, hidden_features from there up to
\* gcn2's linear map and out_features after it: the output has shape (N, out_features).
C7_Shapes ==
    ValidCall =>
        /\ pc # "error"
        /\ Rows(x) = Rows(adj0)
        /\ Cols(x) = IF layer = 1 /\ pc \in {"degree", "pow", "mask", "norm", "mm", "linear"}
                       THEN features[1]
                     ELSE IF pc \in {"return", "done"} /\ layer = 2
                       THEN features[3]
                     ELSE features[2]
        /\ pc = "done" => Shape(x) = <<Rows(adj0), features[3]>>

\* C7 witness: a valid call with N = 3 and three different dimension roles has returned.
C7_Witness ==
    /\ pc = "done"
    /\ ValidCall
    /\ Rows(adj0) = 3
    /\ features[1] # features[2]
    /\ features[2] # features[3]

(* ------------------------------------------------------------------ *)
(* Properties of the training loop (SpecTrain)                         *)
(* ------------------------------------------------------------------ *)
LossLines == SelectSeq(printed, LAMBDA p : p.line = "Epoch")
BodyOrder ==
    [zero_grad |-> "forward", forward |-> "loss", loss |-> "backward",
     backward |-> "step", step |-> "if", if |-> "for", final |-> "done"]

\* the weights are as many steps old as epochs are complete
TrainCounts ==
    /\ tpc \in {"zero_grad", "forward", "loss", "backward", "step"} => updates = epoch
    /\ tpc \in {"if", "for", "final", "done"} => updates = epoch + 1
    /\ tpc = "done" =>
         /\ epoch = Epochs - 1
         /\ updates = Epochs
         /\ [n \in 1..Len(LossLines) |-> LossLines[n].epoch] = <<10, 20, 30, 40, 50>>
    /\ \A n \in 1..Len(LossLines) : LossLines[n].value.epoch = LossLines[n].epoch - 1

\* the statements of the body run in program order, and only optimizer.step() changes
\* the weights, by one update
TrainOrder ==
    /\ tpc # "for" => tpc' = BodyOrder[tpc]
    /\ tpc = "for" => tpc' \in {"zero_grad", "final"}
    /\ updates' # updates => (tpc = "step" /\ updates' = updates + 1)

\* C9: the loop ends after exactly 50 epochs; every epoch runs zero_grad, forward, loss,
\* backward, step in that order; W1 and W2 change only in optimizer.step(), once per epoch,
\* 50 times in all, never in a forward pass; the loss is printed at epochs 10, 20, 30, 40, 50.
C9_TrainingLoop ==
    /\ []TrainCounts
    /\ [][TrainOrder]_vars
    /\ <>(tpc = "done")

\* C9 witness: the loop has ended after its 50th update with five loss lines printed.
C9_Witness ==
    /\ tpc = "done"
    /\ updates = 50
    /\ Len(LossLines) = 5

\* C10: the logits printed as "Final logits" are those of the 50th epoch's forward pass,
\* computed from the weights after 49 updates, while the weights have had 50 updates; the
\* loss printed for epoch 50 comes from the same 49-update weights.
C10_FinalLogitsStale ==
    tpc = "done" =>
        /\ printed[Len(printed)].line = "Final logits"
        /\ printed[Len(printed)].value = [weights |-> Epochs - 1, epoch |-> Epochs - 1]
        /\ updates = Epochs
        /\ LossLines[Len(LossLines)].epoch = Epochs
        /\ LossLines[Len(LossLines)].value.weights = Epochs - 1

\* C10 witness: "Final logits" has been printed after the 50th update.
C10_Witness ==
    /\ tpc = "done"
    /\ Len(printed) = 6
    /\ printed[6].line = "Final logits"
    /\ updates = printed[6].value.weights + 1

====
